---------------------------- MODULE Spec2Model ----------------------------
(***************************************************************************)
(* A model of torch_struct: the CKY inside algorithm (cky.py), the         *)
(* span-scored CKY_CRF (cky_crf.py), the structure codec (to_parts /       *)
(* from_parts) and the SentCFG distribution facade (distributions.py).     *)
(*                                                                         *)
(* Tensors are functions indexed as the code indexes them (0-based).       *)
(* Scores are integers.  A semiring element is kept in a form that is      *)
(* exact for integer scores:                                               *)
(*   Max : the empty set (the semiring zero, -infinity) or {m};            *)
(*   Log : a finite bag of integers b, standing for the real number        *)
(*         log(SUM_s b[s] * exp(s)); the empty bag is the semiring zero.   *)
(*         Two bags stand for the same real only when they are equal       *)
(*         (e is transcendental), so bag equality is equality of totals.   *)
(***************************************************************************)
EXTENDS Integers, Sequences, FiniteSets, TLC

\* ------------------------------------------------------------------ bounds
MaxN == 4
MaxS == 3
MaxSeed == 2
MaxScore == 1

Batch == {0, 1}
Semirings == {"Log", "Max"}

\* ------------------------------------------------------------- arithmetic
RECURSIVE SumF(_, _)
SumF(f, D) ==
    IF D = {} THEN 0
    ELSE LET x == CHOOSE y \in D : TRUE IN f[x] + SumF(f, D \ {x})

SetMax(D) == CHOOSE m \in D : \A y \in D : y <= m

\* ---------------------------------------------------------------- semiring
\* semirings.py is not among the source files: the algebra follows the
\* specification's section 4.1 (zero: identity of sum, one: identity of
\* times, Log: sum = log-sum-exp, times = add; Max: sum = max, times = add).
LogZero == << >>
LogOf(s) == [x \in {s} |-> 1]
LogPlus(a, b) ==
    [s \in (DOMAIN a) \cup (DOMAIN b) |->
        (IF s \in DOMAIN a THEN a[s] ELSE 0) + (IF s \in DOMAIN b THEN b[s] ELSE 0)]
LogTimes(a, b) ==
    [s \in {x + y : x \in DOMAIN a, y \in DOMAIN b} |->
        LET xs == {x \in DOMAIN a : (s - x) \in DOMAIN b}
        IN  SumF([x \in xs |-> a[x] * b[s - x]], xs)]

MaxZero == {}
MaxOf(s) == {s}
MaxPlus(a, b) == IF a \cup b = {} THEN {} ELSE {SetMax(a \cup b)}
MaxTimes(a, b) == {x + y : x \in a, y \in b}

Zero(sr) == IF sr = "Log" THEN LogZero ELSE MaxZero
One(sr) == IF sr = "Log" THEN LogOf(0) ELSE MaxOf(0)
Convert(sr, s) == IF sr = "Log" THEN LogOf(s) ELSE MaxOf(s)
Plus(sr, a, b) == IF sr = "Log" THEN LogPlus(a, b) ELSE MaxPlus(a, b)
Times(sr, a, b) == IF sr = "Log" THEN LogTimes(a, b) ELSE MaxTimes(a, b)
Times3(sr, a, b, c) == Times(sr, Times(sr, a, b), c)

\* semiring.sum over an index set: f is a function on D
RECURSIVE SemiSum(_, _, _)
SemiSum(sr, f, D) ==
    IF D = {} THEN Zero(sr)
    ELSE LET x == CHOOSE y \in D : TRUE IN Plus(sr, f[x], SemiSum(sr, f, D \ {x}))

\* semiring.dot: times, then sum over the contracted axis
Dot(sr, f, g, D) == SemiSum(sr, [x \in D |-> Times(sr, f[x], g[x])], D)

\* unconvert: under Max the plain score, <<m>>, or << >> for -infinity; a Log
\* element stays the bag that names its real value
Unconvert(sr, x) ==
    IF sr = "Max" THEN (IF x = {} THEN << >> ELSE <<CHOOSE m \in x : TRUE>>) ELSE x


\* ------------------------------------------------------------------ inputs
Idx(n) == 0 .. (n - 1)

\* A bounded family of score tensors: seed 0 is the all-ones tensor, every
\* other seed a fixed scramble of the entry's flat index.
Gen(seed, idx) ==
    IF seed = 0 THEN 1
    ELSE ((idx * idx * seed + 3 * idx + 5 * seed) % 7) % (MaxScore + 1)

\* (NT, T) with NT + T <= MaxS; NT = 0 and T = 0 are shapes a caller can pass
Shapes == {p \in (0 .. MaxS) \X (0 .. MaxS) : p[1] + p[2] >= 1 /\ p[1] + p[2] <= MaxS}

\* terms[b, i, t], rules[b, A, B, C], roots[b, A].  Positions i >= cut[b] of
\* terms (the padded positions) are drawn from the seed pad[b]; with same,
\* the batch elements share their scores.
BatchOffset(b, same) == IF same THEN 0 ELSE b
Terms(seed, pad, cut, N, T, same) ==
    [b \in Batch |-> [i \in Idx(N) |-> [t \in Idx(T) |->
        Gen(IF i >= cut[b] THEN pad[b] ELSE seed, 7 * BatchOffset(b, same) + T * i + t)]]]
Rules(seed, NT, S, same) ==
    [b \in Batch |-> [x \in Idx(NT) |-> [y \in Idx(S) |-> [z \in Idx(S) |->
        Gen(seed, 11 * BatchOffset(b, same) + 40 + (x * S + y) * S + z)]]]]
Roots(seed, NT, same) ==
    [b \in Batch |-> [x \in Idx(NT) |-> Gen(seed, 13 * BatchOffset(b, same) + 20 + x)]]

\* ------------------------------------------------------------ CKY._dp
\* _make_chart: a fresh tensor filled with the semiring zero
ChartCell(sr) == Zero(sr)

\* lines 10-38: unpack and convert the scores, allocate the charts, seed the
\* width-1 cells of both orientations with the terminal scores
DpStart(sr, N, NT, T, terms, rules, roots, lengths) ==
    LET S == NT + T
        cterms == [b \in Batch |-> [i \in Idx(N) |-> [t \in Idx(T) |->
                      Convert(sr, terms[b][i][t])]]]
        term_use == cterms
    IN  [pc |-> "loop", semiring |-> sr, N |-> N, NT |-> NT, T |-> T, S |-> S,
         terms |-> cterms,
         rules |-> [b \in Batch |-> [x \in Idx(NT) |-> [y \in Idx(S) |-> [z \in Idx(S) |->
                      Convert(sr, rules[b][x][y][z])]]]],
         roots |-> [b \in Batch |-> [x \in Idx(NT) |-> Convert(sr, roots[b][x])]],
         lengths |-> lengths,
         term_use |-> term_use,
         beta |-> [o \in {"A", "B"} |-> [b \in Batch |-> [i \in Idx(N) |-> [k \in Idx(N) |->
                     [s \in Idx(S) |->
                        IF s >= NT /\ k = (IF o = "A" THEN 0 ELSE N - 1)
                        THEN term_use[b][i][s - NT]
                        ELSE ChartCell(sr)]]]]],
         rule_use |-> [v \in Idx(N - 1) |-> [b \in Batch |-> [i \in Idx(N - v - 1) |->
                     [x \in Idx(NT) |-> [y \in Idx(S) |-> [z \in Idx(S) |-> ChartCell(sr)]]]]]],
         span |-> [v \in Idx(N) |-> [b \in Batch |-> [i \in Idx(N) |-> [s \in Idx(S) |->
                     ChartCell(sr)]]]],
         top |-> [b \in Batch |-> [x \in Idx(NT) |-> ChartCell(sr)]],
         w |-> 1,
         log_Z |-> << >>]

\* lines 42-46: both children nonterminals; Y[i, k] is the left-indexed cell
\* (i, k), Z[i, k] the right-indexed cell (i + w, N - w + k), summed over k
X_Y_Z(d, b, i, x, y, z) ==
    Times(d.semiring,
          SemiSum(d.semiring,
                  [k \in Idx(d.w) |->
                      Times(d.semiring, d.beta.A[b][i][k][y],
                            d.beta.B[b][i + d.w][d.N - d.w + k][z])],
                  Idx(d.w)),
          d.rules[b][x][y][z])

\* (mutant) the left child read at width index 0, as the terminal case does
X_Y_Z1_WidthZero(d, b, i, x, y, z) ==
    Times3(d.semiring, d.beta.A[b][i][0][y], d.beta.B[b][i + d.w][d.N - 1][z],
           d.rules[b][x][y][z])

\* lines 47-49: nonterminal left child, terminal right child
X_Y_Z1(d, b, i, x, y, z) ==
    Times3(d.semiring, d.beta.A[b][i][d.w - 1][y], d.beta.B[b][i + d.w][d.N - 1][z],
           d.rules[b][x][y][z])

\* (mutant) the right child read from the width-1 column
X_Y1_Z_LeafColumn(d, b, i, x, y, z) ==
    Times3(d.semiring, d.beta.A[b][i][0][y], d.beta.B[b][i + d.w][d.N - 1][z],
           d.rules[b][x][y][z])

\* lines 51-53: terminal left child, nonterminal right child
X_Y1_Z(d, b, i, x, y, z) ==
    Times3(d.semiring, d.beta.A[b][i][0][y], d.beta.B[b][i + d.w][d.N - d.w][z],
           d.rules[b][x][y][z])

\* (mutant) the rule score left out of the terminal-terminal product
X_Y1_Z1_NoRule(d, b, i, x, y, z) ==
    IF d.w = 1
    THEN Times(d.semiring, d.beta.A[b][i][d.w - 1][y], d.beta.B[b][i + d.w][d.N - d.w][z])
    ELSE d.rule_use[d.w - 1][b][i][x][y][z]

\* lines 55-60: both children terminals, written only when w = 1
X_Y1_Z1(d, b, i, x, y, z) ==
    IF d.w = 1
    THEN Times3(d.semiring, d.beta.A[b][i][d.w - 1][y], d.beta.B[b][i + d.w][d.N - d.w][z],
                d.rules[b][x][y][z])
    ELSE d.rule_use[d.w - 1][b][i][x][y][z]

\* lines 44-60: rule_use[w - 1] after the four slice assignments
RuleUseW(d) ==
    [b \in Batch |-> [i \in Idx(d.N - d.w) |-> [x \in Idx(d.NT) |->
        [y \in Idx(d.S) |-> [z \in Idx(d.S) |->
            IF y < d.NT
            THEN (IF z < d.NT THEN X_Y_Z(d, b, i, x, y, z) ELSE X_Y_Z1(d, b, i, x, y, z))
            ELSE (IF z < d.NT THEN X_Y1_Z(d, b, i, x, y, z) ELSE X_Y1_Z1(d, b, i, x, y, z))]]]]]

\* lines 62-63: span[w] = semiring.sum over the S * S child pairs
SpanW(d, ru) ==
    [b \in Batch |-> [i \in Idx(d.N - d.w) |-> [x \in Idx(d.NT) |->
        SemiSum(d.semiring, [p \in Idx(d.S) \X Idx(d.S) |-> ru[b][i][x][p[1]][p[2]]],
                Idx(d.S) \X Idx(d.S))]]]

\* line 64: beta[A][:, :, : N - w, w, :NT] = span[w]
BetaAW(d, sp) ==
    [b \in Batch |-> [i \in Idx(d.N) |-> [k \in Idx(d.N) |-> [s \in Idx(d.S) |->
        IF k = d.w /\ i < d.N - d.w /\ s < d.NT THEN sp[b][i][s]
        ELSE d.beta.A[b][i][k][s]]]]]

\* (mutant) the right-indexed copy written one column off
BetaBW_OffByOne(d, betaA) ==
    [b \in Batch |-> [j \in Idx(d.N) |-> [k \in Idx(d.N) |-> [s \in Idx(d.S) |->
        IF k = d.N - d.w /\ j >= d.w /\ s < d.NT THEN betaA[b][j - d.w][d.w][s]
        ELSE d.beta.B[b][j][k][s]]]]]

\* line 65: beta[B][:, :, w:N, N - w - 1, :NT] = beta[A][:, :, : N - w, w, :NT]
BetaBW(d, betaA) ==
    [b \in Batch |-> [j \in Idx(d.N) |-> [k \in Idx(d.N) |-> [s \in Idx(d.S) |->
        IF k = d.N - d.w - 1 /\ j >= d.w /\ s < d.NT THEN betaA[b][j - d.w][d.w][s]
        ELSE d.beta.B[b][j][k][s]]]]]

\* lines 41-65: one iteration of the width loop
DpWidth(d) ==
    LET ru == RuleUseW(d)
        sp == SpanW(d, ru)
        betaA == BetaAW(d, sp)
        betaB == BetaBW(d, betaA)
    IN  [d EXCEPT !.rule_use[d.w - 1] = ru,
                  !.span[d.w] = sp,
                  !.beta = [A |-> betaA, B |-> betaB],
                  !.w = d.w + 1]

\* (mutant) the cell of the whole padded array, whatever lengths says
TopCell_FullWidth(d, b) == d.beta.A[b][0][d.N - 1]

\* line 68: the chart cell read for batch element b
TopCell(d, b) == d.beta.A[b][0][d.lengths[b] - 1]

\* lines 67-71: top, the dot with the roots, unconvert
DpTop(d) ==
    LET top == [b \in Batch |-> [x \in Idx(d.NT) |-> TopCell(d, b)[x]]]
    IN  [d EXCEPT !.pc = "done",
                  !.top = top,
                  !.log_Z = [b \in Batch |->
                      Unconvert(d.semiring,
                                Dot(d.semiring, top[b], d.roots[b], Idx(d.NT)))]]

\* ------------------------------------------- CKY._dp (chart accesses)
\* A chart entry is <<orientation, position, column, symbol>>: beta[A][i, k]
\* is the span of width index k starting at i, beta[B][j, k] the span of
\* width index N - 1 - k ending at j.  The slices take every batch element.
WidthIndex(e, N) == IF e[1] = "A" THEN e[3] ELSE N - 1 - e[3]

CellOf(e) == <<e[1], e[2], e[3]>>

\* lines 33-34: the terminal entries of the width-1 cells
InitWrites(N, NT, S) ==
    {<<"A", i, 0, s>> : i \in Idx(N), s \in NT .. (S - 1)}
        \cup {<<"B", i, N - 1, s>> : i \in Idx(N), s \in NT .. (S - 1)}

\* lines 42-43, 47-48, 51-52, 56-59: the slices Y and Z of iteration w
CombineReads(N, NT, S, w) ==
    {<<"A", i, k, y>> : i \in Idx(N - w), k \in Idx(w), y \in Idx(NT)}
        \cup {<<"B", j, k, z>> : j \in w .. (N - 1), k \in (N - w) .. (N - 1), z \in Idx(NT)}
        \cup {<<"A", i, w - 1, y>> : i \in Idx(N - w), y \in Idx(NT)}
        \cup {<<"B", j, N - 1, z>> : j \in w .. (N - 1), z \in NT .. (S - 1)}
        \cup {<<"A", i, 0, y>> : i \in Idx(N - w), y \in NT .. (S - 1)}
        \cup {<<"B", j, N - w, z>> : j \in w .. (N - 1), z \in Idx(NT)}
        \cup (IF w = 1
              THEN {<<"A", i, w - 1, y>> : i \in Idx(N - w), y \in NT .. (S - 1)}
                       \cup {<<"B", j, N - w, z>> : j \in w .. (N - 1), z \in NT .. (S - 1)}
              ELSE {})

\* (mutant) the right-indexed copy written one column off
LoopWrites_OffByOne(N, NT, S, w) ==
    {<<"A", i, w, x>> : i \in Idx(N - w), x \in Idx(NT)}
        \cup {<<"B", j, N - w, x>> : j \in w .. (N - 1), x \in Idx(NT)}

\* lines 64-65: the left-hand sides of the two chart assignments
LoopWrites(N, NT, S, w) ==
    {<<"A", i, w, x>> : i \in Idx(N - w), x \in Idx(NT)}
        \cup {<<"B", j, N - w - 1, x>> : j \in w .. (N - 1), x \in Idx(NT)}

Entries(N, S) == {"A", "B"} \X Idx(N) \X Idx(N) \X Idx(S)

\* after lines 10-38
AccStart(d) ==
    [pc |-> "tracking", ws |-> << >>, read |-> {}, wrote |-> {}, changed |-> {},
     prior |-> {},
     count |-> [e \in Entries(d.N, d.S) |->
                   IF e \in InitWrites(d.N, d.NT, d.S) THEN 1 ELSE 0]]

\* after iteration d.w of the loop, which took the frame d to n: the loop
\* indices so far, what the
\* iteration read and wrote, the cells holding a written entry when it
\* began, the entries whose value the iteration changed for some batch
\* element, and the number of writes to every entry
AccWidth(a, d, n) ==
    [pc |-> "tracking", ws |-> Append(a.ws, d.w),
     read |-> CombineReads(d.N, d.NT, d.S, d.w),
     wrote |-> LoopWrites(d.N, d.NT, d.S, d.w),
     changed |-> {e \in Entries(d.N, d.S) :
                    \E b \in Batch : n.beta[e[1]][b][e[2]][e[3]][e[4]]
                                        # d.beta[e[1]][b][e[2]][e[3]][e[4]]},
     prior |-> {CellOf(e) : e \in {e \in Entries(d.N, d.S) : a.count[e] > 0}},
     count |-> [e \in Entries(d.N, d.S) |->
                   a.count[e] + (IF e \in LoopWrites(d.N, d.NT, d.S, d.w) THEN 1 ELSE 0)]]

\* ------------------------------------------------------ CKY.marginals
\* What torch.autograd.grad(v.sum(dim=0), rule_use + (top, term_use)) does on
\* the graph _dp recorded, one width at a time from the widest span down.
\* Under the Log semiring the derivative of log_Z[b] with respect to a node u
\* is a quotient with denominator exp(log_Z[b]); a gradient is kept as the
\* numerator, a Log element (the empty bag is the gradient 0).
\*
\* The chart cells that rule_use[w - 1][.., x, y, z] was computed from, as
\* pairs <<k of the left-indexed Y cell, k of the right-indexed Z cell>>
\* (lines 42-60)
Reads(d, w, y, z) ==
    IF y < d.NT /\ z < d.NT THEN {<<k, d.N - w + k>> : k \in Idx(w)}
    ELSE IF y < d.NT THEN {<<w - 1, d.N - 1>>}
    ELSE IF z < d.NT THEN {<<0, d.N - w>>}
    ELSE IF w = 1 THEN {<<w - 1, d.N - w>>}
    ELSE {}

\* the gradient reaching span[w][b, i, x]: through beta[A][i, w] (line 64)
\* and through its copy beta[B][i + w, N - w - 1] (line 65)
GradSpan(d, m, b, i, x) ==
    LogPlus(m.gA[b][i][m.w][x], m.gB[b][i + m.w][d.N - m.w - 1][x])

\* the derivative of log_Z by rule_use[w - 1][b, i, x, y, z]: span[w] is the
\* log-sum-exp of the rule uses (line 63)
GradRuleUse(d, m, b, i, x, y, z) ==
    LogTimes(GradSpan(d, m, b, i, x), d.rule_use[m.w - 1][b][i][x][y][z])

\* what the products of lines 42-60 send back to the left-indexed cell
\* (i, k, s) they read as Y
PushA(d, m, b, i, k, s) ==
    IF i >= d.N - m.w THEN LogZero
    ELSE SemiSum("Log",
            [q \in Idx(d.NT) \X Idx(d.S) |->
                SemiSum("Log",
                    [r \in {r \in Reads(d, m.w, s, q[2]) : r[1] = k} |->
                        Times3("Log", GradSpan(d, m, b, i, q[1]), d.rules[b][q[1]][s][q[2]],
                               d.beta.B[b][i + m.w][r[2]][q[2]])],
                    {r \in Reads(d, m.w, s, q[2]) : r[1] = k})],
            Idx(d.NT) \X Idx(d.S))

\* and to the right-indexed cell (j, k, s) they read as Z
PushB(d, m, b, j, k, s) ==
    IF j < m.w THEN LogZero
    ELSE SemiSum("Log",
            [q \in Idx(d.NT) \X Idx(d.S) |->
                SemiSum("Log",
                    [r \in {r \in Reads(d, m.w, q[2], s) : r[2] = k} |->
                        Times3("Log", GradSpan(d, m, b, j - m.w, q[1]), d.rules[b][q[1]][q[2]][s],
                               d.beta.A[b][j - m.w][r[1]][q[2]])],
                    {r \in Reads(d, m.w, q[2], s) : r[2] = k})],
            Idx(d.NT) \X Idx(d.S))

\* lines 67-70 backwards: log_Z[b] = dot(top[b], roots[b]), top[b] read from
\* the left-indexed cell (0, lengths[b] - 1)
GradStart(d) ==
    [pc |-> "backward", w |-> d.N - 1,
     top |-> [b \in Batch |-> [x \in Idx(d.NT) |-> LogTimes(d.top[b][x], d.roots[b][x])]],
     gA |-> [b \in Batch |-> [i \in Idx(d.N) |-> [k \in Idx(d.N) |-> [s \in Idx(d.S) |->
               IF i = 0 /\ k = d.lengths[b] - 1 /\ s < d.NT THEN d.roots[b][s] ELSE LogZero]]]],
     gB |-> [b \in Batch |-> [j \in Idx(d.N) |-> [k \in Idx(d.N) |-> [s \in Idx(d.S) |->
               LogZero]]]],
     rule_use |-> [v \in Idx(d.N - 1) |-> << >>]]

\* lines 41-65 backwards, for one width
GradWidth(d, m) ==
    [m EXCEPT
        !.w = m.w - 1,
        !.rule_use[m.w - 1] =
            [b \in Batch |-> [i \in Idx(d.N - m.w) |-> [x \in Idx(d.NT) |->
                [y \in Idx(d.S) |-> [z \in Idx(d.S) |-> GradRuleUse(d, m, b, i, x, y, z)]]]]],
        !.gA = [b \in Batch |-> [i \in Idx(d.N) |-> [k \in Idx(d.N) |-> [s \in Idx(d.S) |->
                   LogPlus(m.gA[b][i][k][s], PushA(d, m, b, i, k, s))]]]],
        !.gB = [b \in Batch |-> [j \in Idx(d.N) |-> [k \in Idx(d.N) |-> [s \in Idx(d.S) |->
                   LogPlus(m.gB[b][j][k][s], PushB(d, m, b, j, k, s))]]]]]

\* (mutant) rule_use[w] stored under width index w + 1
RulesSlot_ShiftedWidth(v) == v - 1

\* line 107: rules[:, w, : N - w - 1] = rule_use[w]; the slot v of rules
\* holds rule_use[v]
RulesSlot(v) == v

\* lines 102-114: the gradients reassembled; term_use was copied into the
\* width-1 cells of both orientations (lines 33-34)
MargAssemble(d, m) ==
    [pc |-> "returned",
     terms |-> [b \in Batch |-> [i \in Idx(d.N) |-> [t \in Idx(d.T) |->
                  LogTimes(d.term_use[b][i][t],
                           LogPlus(m.gA[b][i][0][d.NT + t], m.gB[b][i][d.N - 1][d.NT + t]))]]],
     rules |-> [shape |-> <<Cardinality(Batch), d.N, d.N, d.NT, d.S, d.S>>,
                data |-> [b \in Batch |-> [v \in Idx(d.N) |-> [i \in Idx(d.N) |->
                    [x \in Idx(d.NT) |-> [y \in Idx(d.S) |-> [z \in Idx(d.S) |->
                        IF RulesSlot(v) \in Idx(d.N - 1) /\ i < d.N - RulesSlot(v) - 1
                        THEN m.rule_use[RulesSlot(v)][b][i][x][y][z]
                        ELSE LogZero]]]]]]],
     roots |-> m.top]

\* ------------------------------------------------------- CKY.enumerate
\* Python's indexing of an axis of the given size: a negative index counts
\* from the end, anything outside raises IndexError
PyValid(idx, size) == idx >= 0 - size /\ idx < size
PyIndex(idx, size) == IF idx < 0 THEN idx + size ELSE idx

\* The inner generator, lines 242-256: what it yields for (x, start, end), as
\* the bag of the yielded scores, and whether it raises.  The scores are the
\* plain ones: times of the Log and Max semirings is the addition.  ls and
\* rs hold what the nested generators yield for each (w, y) and (w, z).
RECURSIVE Enumerate(_, _, _, _, _)
Enumerate(g, b, x, start, end) ==
    IF start + 1 = end
    THEN IF PyValid(x - g.NT, g.T)
         THEN [raised |-> FALSE,
               ys |-> LogOf(g.terms[b][start][PyIndex(x - g.NT, g.T)])]
         ELSE [raised |-> TRUE, ys |-> LogZero]
    ELSE LET loops == {c \in ((start + 1) .. (end - 1)) \X Idx(g.NT + g.T) \X Idx(g.NT + g.T) :
                          /\ (c[2] < g.NT) = (c[1] # start + 1)
                          /\ (c[3] < g.NT) = (c[1] # end - 1)}
             ls == {<<q[1], q[2], Enumerate(g, b, q[2], start, q[1])>> :
                        q \in {<<c[1], c[2]>> : c \in loops}}
             rs == {<<q[1], q[2], Enumerate(g, b, q[2], q[1], end)>> :
                        q \in {<<c[1], c[3]>> : c \in loops}}
             sub == {<<p[1][1], p[1][2], p[2][2],
                       [raised |-> p[1][3].raised \/ (p[1][3].ys # LogZero /\ p[2][3].raised),
                        ys |-> LogTimes(LogTimes(p[1][3].ys, p[2][3].ys),
                                        LogOf(g.rules[b][x][p[1][2]][p[2][2]]))]>> :
                        p \in {p \in ls \X rs : p[1][1] = p[2][1]}}
         IN  [raised |-> \E p \in sub : p[4].raised,
              ys |-> SemiSum("Log", [p \in sub |-> p[4].ys], sub)]

\* lines 258-261: the derivations of every root with the root's score, and
\* the semiring sum of the stacked list (torch.stack raises on an empty list)
EnumerateAll(g) ==
    LET per == [b \in Batch |-> [nt \in Idx(g.NT) |-> Enumerate(g, b, nt, 0, g.N)]]
        ls == [b \in Batch |->
                  SemiSum("Log", [nt \in Idx(g.NT) |->
                                     LogTimes(per[b][nt].ys, LogOf(g.roots[b][nt]))],
                          Idx(g.NT))]
    IN  IF \E b \in Batch : (\E nt \in Idx(g.NT) : per[b][nt].raised) \/ ls[b] = LogZero
        THEN [pc |-> "raised"]
        ELSE [pc |-> "done",
              total |-> [b \in Batch |->
                            IF g.semiring = "Max" THEN <<SetMax(DOMAIN ls[b])>> ELSE ls[b]]]

\* ---------------------------------------------------------- CKY_CRF._dp
\* lines 9-22: convert, sum the scores over the labels, seed the width-1
\* cells of both orientations from the diagonal
CrfStart(sr, N, NT, sc, lengths) ==
    LET reduced_scores == [b \in Batch |-> [i \in Idx(N) |-> [j \in Idx(N) |->
                              SemiSum(sr, [x \in Idx(NT) |-> Convert(sr, sc[b][i][j][x])],
                                      Idx(NT))]]]
    IN  [pc |-> "loop", semiring |-> sr, N |-> N, NT |-> NT, lengths |-> lengths,
         reduced_scores |-> reduced_scores,
         beta |-> [o \in {"A", "B"} |-> [b \in Batch |-> [i \in Idx(N) |-> [k \in Idx(N) |->
                     IF k = (IF o = "A" THEN 0 ELSE N - 1)
                     THEN reduced_scores[b][i][i]
                     ELSE ChartCell(sr)]]]],
         w |-> 1,
         log_Z |-> << >>]

\* lines 26-29: the new width-w cells, dot(Y, Z) over the split, times the
\* w-th diagonal of the reduced scores
CrfCellW(c, b, i) ==
    Times(c.semiring,
          Dot(c.semiring,
              [k \in Idx(c.w) |-> c.beta.A[b][i][k]],
              [k \in Idx(c.w) |-> c.beta.B[b][i + c.w][c.N - c.w + k]],
              Idx(c.w)),
          c.reduced_scores[b][i][i + c.w])

\* line 29: beta[A][:, :, : N - w, w] = ...
CrfBetaAW(c) ==
    [b \in Batch |-> [i \in Idx(c.N) |-> [k \in Idx(c.N) |->
        IF k = c.w /\ i < c.N - c.w THEN CrfCellW(c, b, i) ELSE c.beta.A[b][i][k]]]]

\* line 30: beta[B][:, :, w:N, N - w - 1] = beta[A][:, :, : N - w, w]
CrfBetaBW(c, betaA) ==
    [b \in Batch |-> [j \in Idx(c.N) |-> [k \in Idx(c.N) |->
        IF k = c.N - c.w - 1 /\ j >= c.w THEN betaA[b][j - c.w][c.w]
        ELSE c.beta.B[b][j][k]]]]

\* lines 25-30: one iteration of the width loop
CrfWidth(c) ==
    LET betaA == CrfBetaAW(c)
        betaB == CrfBetaBW(c, betaA)
    IN  [c EXCEPT !.beta = [A |-> betaA, B |-> betaB], !.w = c.w + 1]

\* lines 32-34: final = beta[A][:, :, 0], read at lengths - 1
CrfTop(c) ==
    [c EXCEPT !.pc = "done",
              !.log_Z = [b \in Batch |-> c.beta.A[b][0][c.lengths[b] - 1]]]

\* ------------------------------------------------------ CKY_CRF.enumerate
\* (mutant) the score of the span's own label left out of the product
CrfEnumerateNode_NoSpan(sc, b, x, start, end, m1, m2) == LogTimes(m1, m2)

\* lines 49-53: semiring.times(m1, m2, scores[:, start, end - 1, x]) on the
\* plain scores
CrfEnumerateNode(sc, b, x, start, end, m1, m2) ==
    LogTimes(LogTimes(m1, m2), LogOf(sc[b][start][end - 1][x]))

\* the inner generator, lines 39-55: the bag of the scores it yields for
\* (x, start, end); ls and rs hold what the nested generators yield for each
\* (w, y) and (w, z)
RECURSIVE CrfEnumerate(_, _, _, _, _, _)
CrfEnumerate(sc, NT, b, x, start, end) ==
    IF start + 1 = end
    THEN LogOf(sc[b][start][start][x])
    ELSE LET ls == {<<w, y, CrfEnumerate(sc, NT, b, y, start, w)>> :
                        w \in (start + 1) .. (end - 1), y \in Idx(NT)}
             rs == {<<w, z, CrfEnumerate(sc, NT, b, z, w, end)>> :
                        w \in (start + 1) .. (end - 1), z \in Idx(NT)}
             sub == {<<p[1][1], p[1][2], p[2][2],
                       CrfEnumerateNode(sc, b, x, start, end, p[1][3], p[2][3])>> :
                        p \in {p \in ls \X rs : p[1][1] = p[2][1]}}
         IN  SemiSum("Log", [p \in sub |-> p[4]], sub)

\* lines 57-61: the derivations of every root label, and the semiring sum of
\* the stacked scores
CrfEnumerateAll(g) ==
    LET ls == [b \in Batch |->
                  SemiSum("Log", [nt \in Idx(g.NT) |->
                                     CrfEnumerate(g.scores, g.NT, b, nt, 0, g.N)],
                          Idx(g.NT))]
    IN  [pc |-> "done",
         total |-> [b \in Batch |->
                       IF g.semiring = "Max" THEN <<SetMax(DOMAIN ls[b])>> ELSE ls[b]]]

\* ------------------------------------------------------- CKY.to_parts
\* spans.nonzero() of one batch element: the labeled cells <<i, j, A>>
Cover(sp, N, S) ==
    {c \in Idx(N) \X Idx(N) \X Idx(S) : sp[c[1]][c[2]][c[3]] # 0}

\* row-major order of nonzero()
CoverBefore(c, e) ==
    \/ c[1] < e[1]
    \/ c[1] = e[1] /\ c[2] < e[2]
    \/ c[1] = e[1] /\ c[2] = e[2] /\ c[3] < e[3]

\* (mutant) the split test dropped: any cell starting at i and any ending at j
SplitMatch_AnyPair(l, r) == TRUE

\* line 144: left[i] entry l = <<i, k, B_p>> and right[j] entry r = <<k_2, j, C_p>>
\* match when k_2 == k + 1 and the two widths add up to the span's
SplitMatch(l, r) ==
    /\ r[1] = l[2] + 1
    /\ (l[2] - l[1] + 1) + (r[2] - r[1] + 1) = r[2] - l[1] + 1

\* lines 141-146: the left entries of cover entry c that have a matching
\* right entry
SplitLefts(cover, c) ==
    {l \in cover : l[1] = c[1] /\ \E r \in cover : r[2] = c[2] /\ SplitMatch(l, r)}

\* lines 142-146: the loops overwrite (B, C) at every left entry that has a
\* match, with its first matching right entry: the last such left entry wins
SplitChoice(cover, c) ==
    LET lefts == SplitLefts(cover, c)
        l == CHOOSE m \in lefts : \A o \in lefts : o = m \/ CoverBefore(o, m)
        rights == {r \in cover : r[2] = c[2] /\ SplitMatch(l, r)}
        r == CHOOSE m \in rights : \A o \in rights : o = m \/ CoverBefore(m, o)
    IN  <<l[3], r[3]>>

\* lines 139-149 for one cover entry: "ok", or the exception it raises
EntryOutcome(cover, c, NT) ==
    IF c[2] > c[1]
    THEN IF SplitLefts(cover, c) = {} THEN "AssertionError"
         ELSE IF c[3] >= NT THEN "IndexError"
         ELSE "ok"
    ELSE "ok"

\* the first cover entry, in order, that raises
FirstBad(cover, NT) ==
    LET bad == {c \in cover : EntryOutcome(cover, c, NT) # "ok"}
    IN  IF bad = {} THEN << >>
        ELSE <<CHOOSE c \in bad : \A o \in bad : o = c \/ CoverBefore(c, o)>>

\* lines 119-150
ToParts(spans, N, NT, T, S, lengths) ==
    IF S # NT + T THEN [pc |-> "AssertionError"]
    ELSE LET cover == [b \in Batch |-> Cover(spans[b], N, S)]
             bad == [b \in Batch |-> FirstBad(cover[b], NT)]
             failing == {b \in Batch : bad[b] # << >>}
         IN  IF failing # {}
             THEN LET b == CHOOSE m \in failing : \A o \in failing : m <= o
                  IN  [pc |-> EntryOutcome(cover[b], bad[b][1], NT)]
             ELSE [pc |-> "returned",
                   terms |-> [b \in Batch |-> [i \in Idx(N) |-> [t \in Idx(T) |->
                                 IF i < lengths[b] THEN spans[b][i][i][NT + t] ELSE 0]]],
                   rules |-> [shape |-> <<Cardinality(Batch), NT, S, S>>,
                              data |-> [b \in Batch |->
                                  LET chosen == {<<c, SplitChoice(cover[b], c)>> :
                                                    c \in {c \in cover[b] : c[2] > c[1]}}
                                  IN  [x \in Idx(NT) |-> [y \in Idx(S) |-> [z \in Idx(S) |->
                                          Cardinality({p \in chosen :
                                              p[1][3] = x /\ p[2] = <<y, z>>})]]]]],
                   roots |-> [b \in Batch |-> [x \in Idx(NT) |->
                                 spans[b][0][lengths[b] - 1][x]]]]

\* (mutant) only the last axis summed, at the first left child
RulesSum_LastAxis(data, b, n, i, x, S) ==
    SumF([q \in Idx(S) |-> data[b][n][i][x][0][q]], Idx(S))

\* ----------------------------------------------------- CKY.from_parts
\* lines 159: rules.sum(dim=-1).sum(dim=-1)
RulesSum(data, b, n, i, x, S) ==
    SumF([q \in Idx(S) \X Idx(S) |-> data[b][n][i][x][q[1]][q[2]]], Idx(S) \X Idx(S))

\* lines 153-165; batch, N, N, NT, S, S = rules.shape needs six dimensions
\* (shape is 1-based here)
FromParts(terms, rules, roots, termsN) ==
    IF Len(rules.shape) # 6 THEN [pc |-> "ValueError"]
    ELSE LET N == rules.shape[3]
             NT == rules.shape[4]
             S == rules.shape[6]
         IN  IF termsN # N THEN [pc |-> "AssertionError"]
             ELSE [pc |-> "returned",
                   spans |-> [b \in Batch |-> [i \in Idx(N) |-> [j \in Idx(N) |-> [x \in Idx(S) |->
                       IF j > i /\ x < NT THEN RulesSum(rules.data, b, j - i - 1, i, x, S)
                       ELSE IF j = i /\ x >= NT THEN terms[b][i][x - NT]
                       ELSE 0]]]],
                   extra |-> <<NT, S - NT>>]

\* ------------------------------------------------------------ state machine
\* struct: the engine in use; scores: the potentials, lengths and semiring of
\* the call; dp: the frame of CKY._dp; crf: the frame of CKY_CRF._dp; enum:
\* the outcome of CKY.enumerate; ref: the frame of a second call of CKY._dp,
\* on the unpadded prefix of the scores; labels: the (spans, extra, lengths)
\* given to to_parts; parts: its outcome; back: the outcome of from_parts;
\* marg: the frame of CKY.marginals after its _dp; dist: a call of
\* SentCFG.log_prob; acc: the chart entries that the running _dp has read and
\* written
VARIABLES struct, scores, dp, crf, enum, ref, labels, parts, back, marg, dist, acc

vars == <<struct, scores, dp, crf, enum, ref, labels, parts, back, marg, dist, acc>>

\* what the codec's actions leave alone, and what the engines' do
engine == <<struct, scores, dp, crf, enum, ref, marg, dist, acc>>
codec == <<labels, parts, back>>

Idle == [pc |-> "idle"]

\* lengths[0] ranges over 1..N, lengths[1] is the full length
Lengths(N) == {[b \in Batch |-> IF b = 0 THEN l ELSE N] : l \in 1 .. N}

\* (terms, rules, roots) of a CKY call
Grammar(sr, N, NT, T, seed, pad, lengths, same) ==
    [semiring |-> sr, N |-> N, NT |-> NT, T |-> T,
     terms |-> Terms(seed, pad, lengths, N, T, same),
     rules |-> Rules(seed, NT, NT + T, same),
     roots |-> Roots(seed, NT, same),
     lengths |-> lengths]

GrammarInputs ==
    UNION {{Grammar(sr, N, p[1], p[2], seed, [b \in Batch |-> seed], ls, FALSE) :
                sr \in Semirings, p \in Shapes, seed \in 0 .. MaxSeed, ls \in Lengths(N)} :
           N \in 1 .. MaxN}

\* scores[b, i, j, nt] of a CKY_CRF call
SpanInputs ==
    UNION {{[semiring |-> sr, N |-> N, NT |-> NT,
             scores |-> [b \in Batch |-> [i \in Idx(N) |-> [j \in Idx(N) |-> [x \in Idx(NT) |->
                            Gen(seed, 17 * b + ((i * N) + j) * NT + x)]]]],
             lengths |-> ls] :
                sr \in Semirings, NT \in 1 .. MaxS, seed \in 0 .. MaxSeed, ls \in Lengths(N)} :
           N \in 1 .. MaxN}

Init ==
    /\ struct \in {"CKY", "CKY_CRF"}
    /\ scores \in (IF struct = "CKY" THEN GrammarInputs ELSE SpanInputs)
    /\ dp = Idle
    /\ crf = Idle
    /\ enum = Idle
    /\ ref = Idle
    /\ labels = Idle /\ parts = Idle /\ back = Idle
    /\ marg = Idle /\ dist = Idle /\ acc = Idle

CallDp ==
    /\ struct = "CKY"
    /\ dp.pc = "idle"
    /\ dp' = DpStart(scores.semiring, scores.N, scores.NT, scores.T, scores.terms,
                     scores.rules, scores.roots, scores.lengths)
    /\ acc' = AccStart(dp')
    /\ UNCHANGED <<struct, scores, crf, enum, ref, marg, dist, codec>>

WidthLoop ==
    /\ dp.pc = "loop"
    /\ dp.w < dp.N
    /\ dp' = DpWidth(dp)
    /\ acc' = AccWidth(acc, dp, dp')
    /\ UNCHANGED <<struct, scores, crf, enum, ref, marg, dist, codec>>

ReturnDp ==
    /\ dp.pc = "loop"
    /\ dp.w >= dp.N
    /\ dp' = DpTop(dp)
    /\ UNCHANGED <<struct, scores, crf, enum, ref, marg, dist, acc, codec>>

CallCrf ==
    /\ struct = "CKY_CRF"
    /\ crf.pc = "idle"
    /\ crf' = CrfStart(scores.semiring, scores.N, scores.NT, scores.scores, scores.lengths)
    /\ UNCHANGED <<struct, scores, dp, enum, ref, marg, dist, acc, codec>>

CrfWidthLoop ==
    /\ crf.pc = "loop"
    /\ crf.w < crf.N
    /\ crf' = CrfWidth(crf)
    /\ UNCHANGED <<struct, scores, dp, enum, ref, marg, dist, acc, codec>>

ReturnCrf ==
    /\ crf.pc = "loop"
    /\ crf.w >= crf.N
    /\ crf' = CrfTop(crf)
    /\ UNCHANGED <<struct, scores, dp, enum, ref, marg, dist, acc, codec>>

\* the brute-force cross-check, called on the scores of a finished _dp
CallEnumerate ==
    /\ struct = "CKY"
    /\ dp.pc = "done"
    /\ enum.pc = "idle"
    /\ enum' = EnumerateAll(scores)
    /\ UNCHANGED <<struct, scores, dp, crf, ref, marg, dist, acc, codec>>

\* CKY_CRF._rand (cky_crf.py lines 65-66) draws N and NT from 2 .. 4
RandMaxN == 4
RandMaxNT == 4

\* CKY_CRF.enumerate on the scores of a finished CKY_CRF._dp, for scores no
\* larger than _rand makes them
CallCrfEnumerate ==
    /\ struct = "CKY_CRF"
    /\ crf.pc = "done"
    /\ scores.N <= RandMaxN /\ scores.NT <= RandMaxNT
    /\ enum.pc = "idle"
    /\ enum' = CrfEnumerateAll(scores)
    /\ UNCHANGED <<struct, scores, dp, crf, ref, marg, dist, acc, codec>>

Next ==
    \/ CallDp \/ WidthLoop \/ ReturnDp
    \/ CallCrf \/ CrfWidthLoop \/ ReturnCrf
    \/ CallEnumerate \/ CallCrfEnumerate

Spec == Init /\ [][Next]_vars

\* ------------------------------------------------- CKY._dp (one call)
InitLoop == Init /\ struct = "CKY"

NextLoop == CallDp \/ WidthLoop \/ ReturnDp

SpecLoop == InitLoop /\ [][NextLoop]_vars

\* ----------------------------------------------------- padding (two calls)
\* Both batch elements carry the same grammar and the same scores below
\* lengths[0]; beyond it the terms of element 1 come from another seed.
PadLengths(N) ==
    UNION {{[b \in Batch |-> IF b = 0 THEN l ELSE m] : m \in {l, N}} : l \in 1 .. N}

PadInputs ==
    UNION {{Grammar(sr, N, p[1], p[2], seed, [b \in Batch |-> IF b = 0 THEN seed ELSE pad],
                    ls, TRUE) :
                sr \in Semirings, p \in {q \in Shapes : q[1] >= 1 /\ q[2] >= 1},
                seed \in 0 .. MaxSeed, pad \in 0 .. MaxSeed, ls \in PadLengths(N)} :
           N \in 1 .. MaxN}

InitPad ==
    /\ struct = "CKY"
    /\ scores \in PadInputs
    /\ dp = Idle
    /\ crf = Idle
    /\ enum = Idle
    /\ ref = Idle
    /\ labels = Idle /\ parts = Idle /\ back = Idle
    /\ marg = Idle /\ dist = Idle /\ acc = Idle

\* the first L = lengths[0] positions alone: arrays of size L, full lengths
CallRef ==
    /\ struct = "CKY"
    /\ dp.pc = "done"
    /\ ref.pc = "idle"
    /\ LET L == scores.lengths[0]
       IN  ref' = DpStart(scores.semiring, L, scores.NT, scores.T,
                          [b \in Batch |-> [i \in Idx(L) |-> scores.terms[b][i]]],
                          scores.rules, scores.roots, [b \in Batch |-> L])
    /\ UNCHANGED <<struct, scores, dp, crf, enum, marg, dist, acc, codec>>

RefWidthLoop ==
    /\ ref.pc = "loop"
    /\ ref.w < ref.N
    /\ ref' = DpWidth(ref)
    /\ UNCHANGED <<struct, scores, dp, crf, enum, marg, dist, acc, codec>>

ReturnRef ==
    /\ ref.pc = "loop"
    /\ ref.w >= ref.N
    /\ ref' = DpTop(ref)
    /\ UNCHANGED <<struct, scores, dp, crf, enum, marg, dist, acc, codec>>

NextPad ==
    \/ CallDp \/ WidthLoop \/ ReturnDp
    \/ CallRef \/ RefWidthLoop \/ ReturnRef

SpecPad == InitPad /\ [][NextPad]_vars

\* ------------------------------------------------- parse trees (semantics)
\* A parse tree of positions i..j is the sequence of its nodes, root first: a
\* rule application <<x, i, k, j, y, z>> (x -> y z over i..j, the left child
\* ending at k) or a leaf <<NT + t, i, i, i, -1, -1>> (terminal t at position
\* i).  Roots and internal nodes are nonterminals, every position carries one
\* terminal leaf.
RECURSIVE ConcatAll(_, _)
ConcatAll(f, n) == IF n = 0 THEN << >> ELSE ConcatAll(f, n - 1) \o f[n]

RECURSIVE Trees(_, _, _, _, _)
Trees(x, i, j, NT, T) ==
    IF i = j
    THEN (IF x >= NT THEN << <<<<x, i, i, i, -1, -1>>>> >> ELSE << >>)
    ELSE IF x >= NT THEN << >>
    ELSE LET S == NT + T
             \* every split point k and child pair (y, z), in turn
             choice == [m \in 1 .. ((j - i) * S * S) |->
                          LET k == i + ((m - 1) \div (S * S))
                              y == ((m - 1) % (S * S)) \div S
                              z == (m - 1) % S
                              ls == Trees(y, i, k, NT, T)
                              rs == Trees(z, k + 1, j, NT, T)
                          IN  \* a child over one position is a terminal leaf,
                              \* a wider child a nonterminal
                              IF (y >= NT) = (k = i) /\ (z >= NT) = (k + 1 = j)
                              THEN [n \in 1 .. (Len(ls) * Len(rs)) |->
                                      <<<<x, i, k, j, y, z>>>>
                                          \o ls[((n - 1) \div Len(rs)) + 1]
                                          \o rs[((n - 1) % Len(rs)) + 1]]
                              ELSE << >>]
         IN  ConcatAll(choice, (j - i) * S * S)

\* the trees over the first L positions, for every shape in the bounds,
\* tabulated once: entry TreeKey(L, NT, T)
TreeKey(L, NT, T) == ((L - 1) * (MaxS + 1) + NT) * (MaxS + 1) + T + 1

RECURSIVE TreeRows(_)
TreeRows(m) ==
    IF m = 0 THEN << >>
    ELSE LET L == ((m - 1) \div ((MaxS + 1) * (MaxS + 1))) + 1
             NT == ((m - 1) \div (MaxS + 1)) % (MaxS + 1)
             T == (m - 1) % (MaxS + 1)
         IN  Append(TreeRows(m - 1),
                    IF NT + T <= MaxS
                    THEN ConcatAll([x \in 1 .. NT |-> Trees(x - 1, 0, L - 1, NT, T)], NT)
                    ELSE << >>)

TreeTable == TreeRows(MaxN * (MaxS + 1) * (MaxS + 1))

NodeScore(g, b, n) ==
    IF n[5] = -1 THEN g.terms[b][n[2]][n[1] - g.NT] ELSE g.rules[b][n[1]][n[5]][n[6]]

\* the tree's terminal scores + the scores of all rules it applies + the
\* score of its root
RECURSIVE NodeSum(_, _, _, _)
NodeSum(g, b, t, m) == IF m = 0 THEN 0 ELSE NodeScore(g, b, t[m]) + NodeSum(g, b, t, m - 1)

TreeScore(g, b, t) == NodeSum(g, b, t, Len(t)) + g.roots[b][t[1][1]]

\* log SUM over the trees tl[lo..hi] of exp(score), as a bag of scores
RECURSIVE ScoreBag(_, _, _, _, _)
ScoreBag(g, b, tl, lo, hi) ==
    IF lo > hi THEN LogZero
    ELSE IF lo = hi THEN LogOf(TreeScore(g, b, tl[lo]))
    ELSE LET mid == (lo + hi) \div 2
         IN  LogPlus(ScoreBag(g, b, tl, lo, mid), ScoreBag(g, b, tl, mid + 1, hi))

TreeTotal(g, b, L) ==
    LET tl == TreeTable[TreeKey(L, g.NT, g.T)] IN ScoreBag(g, b, tl, 1, Len(tl))

\* ------------------------------------------------------ codec (two calls)
\* the labeled cells <<i, j, A>> of a parse tree
CellsOf(t) == {<<t[m][2], t[m][4], t[m][1]>> : m \in 1 .. Len(t)}

\* a few trees of every shape: every stride-th of the table's row
MaxTrees == 3
TreeSample(L, NT, T) ==
    LET tl == TreeTable[TreeKey(L, NT, T)]
        stride == ((Len(tl) + MaxTrees - 1) \div MaxTrees)
    IN  {tl[m] : m \in {m \in 1 .. Len(tl) : (m - 1) % stride = 0}}

\* a tree's labeling, as it is, with the label of one node dropped, or with
\* one more cell labeled (any label, on or above the first subdiagonal)
Perturbed(t, N, S) ==
    {CellsOf(t)}
        \cup {CellsOf(t) \ {<<t[m][2], t[m][4], t[m][1]>>} : m \in 1 .. Len(t)}
        \cup {CellsOf(t) \cup {c} :
                c \in {c \in Idx(N) \X Idx(N) \X Idx(S) : c[2] >= c[1] - 1}}

Dense(cells, N, S) ==
    [i \in Idx(N) |-> [j \in Idx(N) |-> [x \in Idx(S) |->
        IF <<i, j, x>> \in cells THEN 1 ELSE 0]]]

\* batch element 0 carries the perturbed labeling, element 1 the tree's own
LabelInputs ==
    UNION {UNION {UNION {UNION {
        {[pc |-> "given", N |-> N, NT |-> p[1], T |-> p[2], S |-> p[1] + p[2],
          lengths |-> [b \in Batch |-> L],
          spans |-> [b \in Batch |->
                        Dense(IF b = 0 THEN cells ELSE CellsOf(t), N, p[1] + p[2])]] :
            cells \in Perturbed(t, N, p[1] + p[2])} :
        t \in TreeSample(L, p[1], p[2])} :
        L \in {l \in {N - 1, N} : l >= 1}} :
        p \in {q \in Shapes : q[1] >= 1 /\ q[2] >= 1}} :
        N \in 1 .. MaxN}

InitCodec ==
    /\ struct = "CKY"
    /\ scores = Idle /\ dp = Idle /\ crf = Idle /\ enum = Idle /\ ref = Idle
    /\ marg = Idle /\ dist = Idle /\ acc = Idle
    /\ labels \in LabelInputs
    /\ parts = Idle
    /\ back = Idle

CallToParts ==
    /\ labels.pc = "given"
    /\ parts.pc = "idle"
    /\ parts' = ToParts(labels.spans, labels.N, labels.NT, labels.T, labels.S, labels.lengths)
    /\ UNCHANGED <<struct, scores, dp, crf, enum, ref, marg, dist, acc, labels, back>>

\* from_parts on what to_parts returned
CallFromParts ==
    /\ parts.pc = "returned"
    /\ back.pc = "idle"
    /\ back' = FromParts(parts.terms, parts.rules, parts.roots, labels.N)
    /\ UNCHANGED <<engine, labels, parts>>

NextCodec == CallToParts \/ CallFromParts

SpecCodec == InitCodec /\ [][NextCodec]_vars

\* --------------------------------------------------- marginals (one call)
\* Log-semiring grammars with N + NT + T below the largest shape
MargInputs ==
    UNION {{Grammar("Log", N, p[1], p[2], seed, [b \in Batch |-> seed], ls, FALSE) :
                p \in {q \in Shapes : q[1] >= 1 /\ q[2] >= 1 /\ N + q[1] + q[2] < MaxN + MaxS},
                seed \in 0 .. MaxSeed, ls \in Lengths(N)} :
           N \in 1 .. MaxN}

InitMarg ==
    /\ struct = "CKY"
    /\ scores \in MargInputs
    /\ dp = Idle /\ crf = Idle /\ enum = Idle /\ ref = Idle
    /\ labels = Idle /\ parts = Idle /\ back = Idle
    /\ marg = Idle /\ dist = Idle /\ acc = Idle

\* lines 94-101: autograd.grad on the finished forward pass
CallGrad ==
    /\ dp.pc = "done"
    /\ marg.pc = "idle"
    /\ marg' = GradStart(dp)
    /\ UNCHANGED <<struct, scores, dp, crf, enum, ref, dist, acc, codec>>

GradLoop ==
    /\ marg.pc = "backward"
    /\ marg.w >= 1
    /\ marg' = GradWidth(dp, marg)
    /\ UNCHANGED <<struct, scores, dp, crf, enum, ref, dist, acc, codec>>

\* lines 102-114
ReturnMarginals ==
    /\ marg.pc = "backward"
    /\ marg.w < 1
    /\ marg' = MargAssemble(dp, marg)
    /\ UNCHANGED <<struct, scores, dp, crf, enum, ref, dist, acc, codec>>

NextMarg ==
    \/ CallDp \/ WidthLoop \/ ReturnDp
    \/ CallGrad \/ GradLoop \/ ReturnMarginals

SpecMarg == InitMarg /\ [][NextMarg]_vars

\* ------------------------------------------------------ SentCFG.log_prob
\* CKY.score (cky.py lines 274-282): the potentials weighted by the part
\* counts, m_rule summed over its width and position dimensions
Score(g, m) ==
    [b \in Batch |->
        SumF([q \in Idx(g.N) \X Idx(g.T) |-> m.terms[b][q[1]][q[2]] * g.terms[b][q[1]][q[2]]],
             Idx(g.N) \X Idx(g.T))
        + SumF([q \in Idx(g.NT) \X Idx(g.NT + g.T) \X Idx(g.NT + g.T) |->
                    SumF([r \in Idx(g.N) \X Idx(g.N) |->
                            m.rules[b][r[1]][r[2]][q[1]][q[2]][q[3]]],
                         Idx(g.N) \X Idx(g.N))
                    * g.rules[b][q[1]][q[2]][q[3]]],
               Idx(g.NT) \X Idx(g.NT + g.T) \X Idx(g.NT + g.T))
        + SumF([x \in Idx(g.NT) |-> m.roots[b][x] * g.roots[b][x]], Idx(g.NT))]

RECURSIVE RunDp(_)
RunDp(d) == IF d.w < d.N THEN RunDp(DpWidth(d)) ELSE DpTop(d)

\* StructDistribution.partition (distributions.py lines 125-128):
\* CKY(LogSemiring).sum(log_potentials, lengths)
Partition(g) ==
    RunDp(DpStart("Log", g.N, g.NT, g.T, g.terms, g.rules, g.roots, g.lengths)).log_Z

\* SentCFG keeps log_potentials as the tuple (terms, rules, roots)
\* (distributions.py line 359), which Tensor.type_as does not accept
PotentialsAreTensor == FALSE

\* CKY.score(self, potentials, parts) has no batch_dims parameter
\* (cky.py line 274)
ScoreTakesBatchDims == FALSE

\* StructDistribution.log_prob (distributions.py lines 48-66), which SentCFG
\* inherits.  A result <<v, Z>> stands for the real v - log SUM(Z).
LogProb(g, value) ==
    IF value.kind # "tensor" THEN [pc |-> "AttributeError"]
    ELSE IF ~PotentialsAreTensor THEN [pc |-> "TypeError"]
    ELSE IF ~ScoreTakesBatchDims THEN [pc |-> "TypeError"]
    ELSE [pc |-> "returned",
          result |-> [b \in Batch |-> <<Score(g, value)[b], Partition(g)[b]>>]]

\* the event of SentCFG for one tree per batch element, in the shapes of
\* CKY.marginals: one-hot (terms, rules, roots)
TreeEvent(ts, N, NT, T) ==
    [kind |-> "tuple",
     terms |-> [b \in Batch |-> [i \in Idx(N) |-> [t \in Idx(T) |->
                  IF <<NT + t, i, i, i, -1, -1>> \in {ts[b][m] : m \in 1 .. Len(ts[b])}
                  THEN 1 ELSE 0]]],
     rules |-> [b \in Batch |-> [v \in Idx(N) |-> [i \in Idx(N) |-> [x \in Idx(NT) |->
                  [y \in Idx(NT + T) |-> [z \in Idx(NT + T) |->
                      IF \E m \in 1 .. Len(ts[b]) :
                            /\ ts[b][m][1] = x /\ ts[b][m][2] = i /\ ts[b][m][4] = i + v + 1
                            /\ ts[b][m][5] = y /\ ts[b][m][6] = z
                      THEN 1 ELSE 0]]]]]],
     roots |-> [b \in Batch |-> [x \in Idx(NT) |-> IF ts[b][1][1] = x THEN 1 ELSE 0]]]

\* the same trees in the compact representation, one tensor
TreeTensor(ts, N, NT, T) ==
    [kind |-> "tensor", dim |-> 4,
     spans |-> [b \in Batch |-> Dense(CellsOf(ts[b]), N, NT + T)]]

ValueInputs(g) ==
    UNION {{TreeEvent(ts, g.N, g.NT, g.T), TreeTensor(ts, g.N, g.NT, g.T)} :
            ts \in {f \in [Batch -> UNION {TreeSample(g.lengths[b], g.NT, g.T) : b \in Batch}] :
                      \A b \in Batch : f[b] \in TreeSample(g.lengths[b], g.NT, g.T)}}

InitDist ==
    /\ struct = "CKY"
    /\ scores \in {g \in MargInputs : g.N >= 2 /\ g.lengths[0] >= 2}
    /\ dp = Idle /\ crf = Idle /\ enum = Idle /\ ref = Idle
    /\ labels = Idle /\ parts = Idle /\ back = Idle
    /\ marg = Idle /\ acc = Idle
    /\ dist \in {[pc |-> "given", value |-> v] : v \in ValueInputs(scores)}

CallLogProb ==
    /\ dist.pc = "given"
    /\ dist' = LogProb(scores, dist.value) @@ [value |-> dist.value]
    /\ UNCHANGED <<struct, scores, dp, crf, enum, ref, marg, acc, codec>>

NextDist == CallLogProb

SpecDist == InitDist /\ [][NextDist]_vars

\* ------------------------------------------- marginals (semantics, by tree)
\* the trees of the row tl that apply x -> y z over the span i..j
TreesWith(tl, x, i, j, y, z) ==
    {m \in 1 .. Len(tl) :
        \E n \in 1 .. Len(tl[m]) :
            LET nd == tl[m][n]
            IN  nd[1] = x /\ nd[2] = i /\ nd[4] = j /\ nd[5] = y /\ nd[6] = z}

RECURSIVE TreeScores(_, _, _, _, _)
TreeScores(g, b, tl, lo, hi) ==
    IF lo > hi THEN << >>
    ELSE IF lo = hi THEN <<TreeScore(g, b, tl[lo])>>
    ELSE LET mid == (lo + hi) \div 2
         IN  TreeScores(g, b, tl, lo, mid) \o TreeScores(g, b, tl, mid + 1, hi)

\* SUM over the trees ms of exp(score), as a bag; sc[m] is the score of tree m
BagOfTrees(sc, ms) ==
    [v \in {sc[m] : m \in ms} |-> Cardinality({m \in ms : sc[m] = v})]

\* ------------------------------------------- StructDistribution.to_event
\* CKY.to_parts with its optional lengths: << >> is None, <<ls>> a tensor.
\* The assert of line 123 comes first; lengths[b] at line 128 raises
\* TypeError on None (the batch is never empty).
ToPartsOpt(spans, N, NT, T, S, lengths) ==
    IF S # NT + T THEN [pc |-> "AssertionError"]
    ELSE IF lengths = << >> THEN [pc |-> "TypeError"]
    ELSE ToParts(spans, N, NT, T, S, lengths[1])

\* distributions.py lines 153-155: self.struct.to_parts(sequence, extra,
\* lengths=None), whatever lengths the caller passed
ToEvent(spans, N, NT, T, S, lengths) ==
    ToPartsOpt(spans, N, NT, T, S, << >>)

\* SentCFG.to_event on the labels, next to CKY.to_parts on the same labels
\* with the caller's lengths
CallToEvent ==
    /\ labels.pc = "given"
    /\ dist.pc = "idle"
    /\ dist' = ToEvent(labels.spans, labels.N, labels.NT, labels.T, labels.S,
                       <<labels.lengths>>)
    /\ UNCHANGED <<struct, scores, dp, crf, enum, ref, marg, acc, codec>>

NextEvent == CallToParts \/ CallToEvent

SpecEvent == InitCodec /\ [][NextEvent]_vars

\* ------------------------------------------------- from_parts (one call)
\* Parts in the shapes of CKY.marginals: rules (batch, N, N, NT, S, S), terms
\* (batch, N, T), roots (batch, NT), with counts drawn from the seed.  Batch
\* element 1 holds the counts of element 0 moved, span by span, onto one
\* pair of child labels: (0, 0) for mode 0, (S - 1, S - 1) for mode 1, the
\* transposed pair for mode 2.
PartCount(seed, N, NT, S, n, i, x, y, z) ==
    Gen(seed, 3 + ((((n * N + i) * NT + x) * S + y) * S + z))

Moved(seed, mode, N, NT, S, n, i, x, y, z) ==
    IF mode = 2 THEN PartCount(seed, N, NT, S, n, i, x, z, y)
    ELSE IF y = (IF mode = 0 THEN 0 ELSE S - 1) /\ z = y
    THEN SumF([q \in Idx(S) \X Idx(S) |-> PartCount(seed, N, NT, S, n, i, x, q[1], q[2])],
              Idx(S) \X Idx(S))
    ELSE 0

PartsInputs ==
    UNION {{[pc |-> "returned",
             terms |-> Terms(seed, [b \in Batch |-> seed], [b \in Batch |-> N], N, p[2], TRUE),
             rules |-> [shape |-> <<Cardinality(Batch), N, N, p[1], p[1] + p[2], p[1] + p[2]>>,
                        data |-> [b \in Batch |-> [n \in Idx(N) |-> [i \in Idx(N) |->
                            [x \in Idx(p[1]) |-> [y \in Idx(p[1] + p[2]) |->
                                [z \in Idx(p[1] + p[2]) |->
                                    IF b = 0
                                    THEN PartCount(seed, N, p[1], p[1] + p[2], n, i, x, y, z)
                                    ELSE Moved(seed, mode, N, p[1], p[1] + p[2],
                                               n, i, x, y, z)]]]]]]],
             roots |-> Roots(seed, p[1], TRUE)] :
                p \in {q \in Shapes : q[1] >= 1}, seed \in 0 .. MaxSeed, mode \in 0 .. 2} :
           N \in 1 .. MaxN}

InitParts ==
    /\ struct = "CKY"
    /\ scores = Idle /\ dp = Idle /\ crf = Idle /\ enum = Idle /\ ref = Idle
    /\ marg = Idle /\ dist = Idle /\ acc = Idle
    /\ parts \in PartsInputs
    /\ labels = [pc |-> "parts", N |-> parts.rules.shape[2]]
    /\ back = Idle

NextParts == CallFromParts

SpecParts == InitParts /\ [][NextParts]_vars

\* ================================================================ claims

\* ---- C1 (as stated; refuted at N = 1) ----
\* C1: under the Max semiring, for every grammar with N >= 1, NT >= 1, T >= 1,
\* CKY.enumerate returns and, for each batch element with lengths[b] = N, the
\* total of CKY._dp equals the maximum score among the enumerated derivations.
C1_MaxEqualsEnumerate ==
    (struct = "CKY" /\ enum.pc # "idle" /\ scores.semiring = "Max"
        /\ scores.NT >= 1 /\ scores.T >= 1) =>
        /\ enum.pc = "done"
        /\ \A b \in Batch : scores.lengths[b] = scores.N => dp.log_Z[b] = enum.total[b]

\* the same statement for N >= 2, where enumerate's leaves are typed
C1_FromLengthTwo ==
    (struct = "CKY" /\ enum.pc # "idle" /\ scores.semiring = "Max"
        /\ scores.NT >= 1 /\ scores.T >= 1 /\ scores.N >= 2) =>
        /\ enum.pc = "done"
        /\ \A b \in Batch : scores.lengths[b] = scores.N => dp.log_Z[b] = enum.total[b]

\* ---- C2 ----
\* C2: under the Log semiring the total of CKY._dp for batch element b is the
\* log of the sum, over all valid binary parse trees of the first lengths[b]
\* positions, of exp(terminal scores + rule scores + root score); it is the
\* semiring zero when there is no valid tree.
C2_LogPartition ==
    (struct = "CKY" /\ dp.pc = "done" /\ scores.semiring = "Log") =>
        \A b \in Batch :
            /\ dp.log_Z[b] = TreeTotal(scores, b, scores.lengths[b])
            /\ Len(TreeTable[TreeKey(scores.lengths[b], scores.NT, scores.T)]) = 0
                   => dp.log_Z[b] = LogZero

\* a finished Log run over four positions, two nonterminals: every child-type
\* case has contributed to a non-zero total
C2_Witness ==
    /\ struct = "CKY" /\ dp.pc = "done" /\ scores.semiring = "Log"
    /\ scores.N = 4 /\ scores.NT = 2 /\ scores.T = 1 /\ scores.lengths[0] = 3
    /\ \A b \in Batch : dp.log_Z[b] # LogZero

\* ---- C6 ----
Scenario6(g, b) ==
    /\ g.N = 2 /\ g.NT = 1 /\ g.T = 1 /\ g.lengths[b] = 2
    /\ \A i \in Idx(2) : g.terms[b][i][0] = 1
    /\ \A y \in Idx(2), z \in Idx(2) : g.rules[b][0][y][z] = 1
    /\ g.roots[b][0] = 1

\* C6: with N = 2, NT = 1, T = 1 and every terminal, rule and root score 1,
\* CKY._dp returns the total 4; the terminal-terminal rule use is 3 and the
\* other three child-type combinations are the semiring zero.
C6_ScenarioTotalFour ==
    \A b \in Batch :
        (struct = "CKY" /\ dp.pc = "done" /\ Scenario6(scores, b)) =>
            /\ dp.log_Z[b] = Unconvert(scores.semiring, Convert(scores.semiring, 4))
            /\ \A y \in Idx(2), z \in Idx(2) :
                  dp.rule_use[0][b][0][0][y][z] =
                      (IF y = 1 /\ z = 1 THEN Convert(scores.semiring, 3)
                       ELSE Zero(scores.semiring))

C6_Witness ==
    /\ struct = "CKY" /\ dp.pc = "done" /\ scores.semiring = "Log"
    /\ \A b \in Batch : Scenario6(scores, b) /\ dp.log_Z[b] = LogOf(4)

\* ---- C8 (as stated; refuted) ----
\* C8: CKY._dp called with NT = 0 or T = 0 fails fast: it runs no iteration
\* of the width loop and returns no total.
C8_FailsFast ==
    (struct = "CKY" /\ (scores.NT = 0 \/ scores.T = 0)) =>
        /\ dp.pc # "done"
        /\ dp.pc = "loop" => dp.w = 1

\* ---- C10 ----
\* C10: after initialisation and after every iteration of the width loop, in
\* CKY._dp and in CKY_CRF._dp, the right-indexed cell (i + w, N - 1 - w)
\* equals the left-indexed cell (i, w), for every i + w <= N - 1 and state.
C10_Mirror ==
    /\ dp.pc \in {"loop", "done"} =>
          \A b \in Batch : \A i \in Idx(dp.N), k \in Idx(dp.N) : i + k <= dp.N - 1 =>
              \A s \in Idx(dp.S) : dp.beta.B[b][i + k][dp.N - 1 - k][s] = dp.beta.A[b][i][k][s]
    /\ crf.pc \in {"loop", "done"} =>
          \A b \in Batch : \A i \in Idx(crf.N), k \in Idx(crf.N) : i + k <= crf.N - 1 =>
              crf.beta.B[b][i + k][crf.N - 1 - k] = crf.beta.A[b][i][k]

\* the loop of CKY._dp has written a non-zero cell of width index 2
C10_Witness ==
    /\ struct = "CKY" /\ dp.pc = "loop" /\ dp.w = 3 /\ dp.N = 4
    /\ \E b \in Batch, s \in Idx(dp.NT) : dp.beta.A[b][1][2][s] # Zero(dp.semiring)

\* ---- C3 ----
\* two batch elements agree on everything CKY._dp may read for them
AgreeBelowLength(g, b, c) ==
    /\ g.rules[b] = g.rules[c]
    /\ g.roots[b] = g.roots[c]
    /\ g.lengths[b] = g.lengths[c]
    /\ \A i \in Idx(g.lengths[b]) : g.terms[b][i] = g.terms[c][i]

\* C3: the total for a batch element with lengths[b] = L <= N equals the
\* total computed on the first L positions alone with array size L, and two
\* inputs that agree on rules, roots, lengths and the terms below lengths[b]
\* give equal totals, whatever the terms at the padded positions are.
C3_PaddingInvariance ==
    /\ (dp.pc = "done" /\ ref.pc = "done") => dp.log_Z[0] = ref.log_Z[0]
    /\ dp.pc = "done" =>
          \A b \in Batch, c \in Batch :
              AgreeBelowLength(scores, b, c) => dp.log_Z[b] = dp.log_Z[c]

\* both calls are done on an input with two padded positions whose terms
\* differ between the batch elements, and the total is not the zero
C3_Witness ==
    /\ dp.pc = "done" /\ ref.pc = "done"
    /\ scores.N = 4 /\ scores.lengths[0] = 2 /\ scores.lengths[1] = 2
    /\ scores.terms[0][3] # scores.terms[1][3]
    /\ dp.log_Z[0] # Unconvert(scores.semiring, Zero(scores.semiring))

\* ---- C4 (as stated; refuted) ----
\* C4: for a span labeling that encodes a single consistent binary tree,
\* from_parts applied to the result of to_parts returns the original spans.
IsTreeLabeling(lb) ==
    \A b \in Batch :
        \E t \in TreeSample(lb.lengths[b], lb.NT, lb.T) :
            lb.spans[b] = Dense(CellsOf(t), lb.N, lb.S)

C4_RoundTrip ==
    (labels.pc = "given" /\ IsTreeLabeling(labels) /\ parts.pc = "returned"
        /\ back.pc # "idle") =>
        /\ back.pc = "returned"
        /\ back.spans = labels.spans

\* ---- C7 ----
\* some labeled cell (i, j), j > i, of batch element b has no pair of labeled
\* cells (i, k), (k + 1, j)
Unpaired(lb, b) ==
    LET cover == Cover(lb.spans[b], lb.N, lb.S)
    IN  \E c \in cover :
            /\ c[2] > c[1]
            /\ ~ \E k \in (0 - 1) .. lb.N :
                    /\ \E l \in cover : l[1] = c[1] /\ l[2] = k
                    /\ \E r \in cover : r[1] = k + 1 /\ r[2] = c[2]

\* every labeled cell (i, j) with j > i carries a nonterminal
WideNonterminal(lb) ==
    \A b \in Batch : \A c \in Cover(lb.spans[b], lb.N, lb.S) : c[2] > c[1] => c[3] < lb.NT

\* C7 (as stated): to_parts fails with an assertion whenever some labeled
\* span (i, j), j > i, has no pair of labeled spans (i, k), (k + 1, j), and
\* completes when every such span has a pair.
C7_AssertIffUnpaired ==
    (labels.pc = "given" /\ parts.pc # "idle") =>
        IF \E b \in Batch : Unpaired(labels, b)
        THEN parts.pc = "AssertionError"
        ELSE parts.pc = "returned"

\* C7 (amended): the same, for inputs whose labeled spans (i, j) with j > i
\* all carry nonterminal labels.
C7_AssertIffUnpairedTyped ==
    (labels.pc = "given" /\ parts.pc # "idle" /\ WideNonterminal(labels)) =>
        IF \E b \in Batch : Unpaired(labels, b)
        THEN parts.pc = "AssertionError"
        ELSE parts.pc = "returned"

\* to_parts has failed its assertion on a three-position labeling whose wide
\* labels are all nonterminals
C7_Witness ==
    /\ labels.pc = "given" /\ labels.N = 3 /\ WideNonterminal(labels)
    /\ Unpaired(labels, 0)
    /\ parts.pc = "AssertionError"

\* ---- C5 ----
\* C5: under the Log semiring rules[b, w, i, A, B, C] of CKY.marginals is the
\* sum, over the valid parse trees (of the first lengths[b] positions) that
\* apply A -> B C over the span starting at i whose width index in the
\* marginals tensor is w (positions i .. i + w + 1), of exp(score - total);
\* it is zero at every i >= N - w - 1.  Both sides are numerators over the
\* common denominator exp(log_Z[b]).
C5_RuleMarginals ==
    (marg.pc = "returned") =>
        \A b \in Batch :
            LET tl == TreeTable[TreeKey(scores.lengths[b], scores.NT, scores.T)]
                sc == TreeScores(scores, b, tl, 1, Len(tl))
            IN  \A v \in Idx(scores.N), i \in Idx(scores.N), x \in Idx(scores.NT) :
                \A y \in Idx(scores.NT + scores.T), z \in Idx(scores.NT + scores.T) :
                    /\ marg.rules.data[b][v][i][x][y][z] =
                           BagOfTrees(sc, TreesWith(tl, x, i, i + v + 1, y, z))
                    /\ i >= scores.N - v - 1 => marg.rules.data[b][v][i][x][y][z] = LogZero

\* marginals has returned a non-zero marginal of a rule with two nonterminal
\* children over a span of four positions
C5_Witness ==
    /\ marg.pc = "returned" /\ scores.N = 4 /\ scores.lengths[1] = 4
    /\ marg.rules.data[1][2][0][0][0][0] # LogZero

\* ---- C9 ----
\* C9: SentCFG.log_prob(value) returns, for each batch element, CKY.score of
\* value under the potentials minus the Log-semiring partition.
C9_LogProbIsScoreMinusPartition ==
    (dist.pc \notin {"idle", "given"}) =>
        /\ dist.pc = "returned"
        /\ dist.value.kind = "tuple"
        /\ dist.result = [b \in Batch |->
                            <<Score(scores, dist.value)[b],
                              TreeTotal(scores, b, scores.lengths[b])>>]

\* ---- C11 ----
\* C11: in CKY._dp (grammars with at least one nonterminal and one terminal)
\* the width loop runs w = 1, 2, ..., N - 1 in increasing order; the
\* combination step of iteration w reads only chart cells of width index < w,
\* each holding an entry written at initialisation or by an earlier
\* iteration; the iteration writes only nonterminal entries of cells of width
\* index w, in both orientations, and changes no other entry; no chart entry
\* is written more than once.
C11_WidthOrder ==
    (acc.pc = "tracking" /\ dp.NT >= 1 /\ dp.T >= 1) =>
        /\ acc.ws = [n \in 1 .. Len(acc.ws) |-> n]
        /\ Len(acc.ws) = dp.w - 1
        /\ dp.pc = "done" => Len(acc.ws) = dp.N - 1
        /\ Len(acc.ws) >= 1 =>
            LET w == acc.ws[Len(acc.ws)]
            IN  /\ \A e \in acc.read :
                      WidthIndex(e, dp.N) < w /\ CellOf(e) \in acc.prior
                /\ \A e \in acc.wrote :
                      WidthIndex(e, dp.N) = w /\ e[4] < dp.NT
                /\ acc.changed \subseteq acc.wrote
                /\ \E e \in acc.wrote : e[1] = "A"
                /\ \E e \in acc.wrote : e[1] = "B"
        /\ \A e \in Entries(dp.N, dp.S) : acc.count[e] <= 1

\* the loop has run to its last iteration on an array of the largest size,
\* reading cells of both orientations
C11_Witness ==
    /\ acc.pc = "tracking" /\ dp.pc = "done" /\ dp.N = MaxN
    /\ dp.NT >= 1 /\ dp.T >= 1
    /\ Len(acc.ws) = MaxN - 1
    /\ \E e \in acc.read : e[1] = "B" /\ e[4] < dp.NT
    /\ \E e \in acc.changed : e[1] = "B"

\* ---- C12 ----
\* the value the chart holds for symbol s over the positions i .. i + k
SpanValue(d, b, i, k, s) == d.beta.A[b][i][k][s]

\* C12: after iteration w of CKY._dp (spans of w + 1 positions) the rule-use
\* entry of x -> y z at start i is: for two terminal children, the product of
\* the two leaves and the rule when w = 1 and the semiring zero when w >= 2;
\* for a terminal left child, the leaf at i with the nonterminal cell over
\* the remaining w positions; for a terminal right child, the nonterminal
\* cell over the first w positions with the leaf at i + w; for two
\* nonterminal children, the sum over every split point of the span.
C12_RuleUseCases ==
    (dp.pc \in {"loop", "done"}) =>
        \A w \in 1 .. (dp.w - 1), b \in Batch, x \in Idx(dp.NT) :
            \A i \in Idx(dp.N - w), y \in Idx(dp.S), z \in Idx(dp.S) :
                dp.rule_use[w - 1][b][i][x][y][z] =
                    IF y >= dp.NT /\ z >= dp.NT
                    THEN IF w = 1
                         THEN Times3(dp.semiring, dp.terms[b][i][y - dp.NT],
                                     dp.terms[b][i + 1][z - dp.NT], dp.rules[b][x][y][z])
                         ELSE Zero(dp.semiring)
                    ELSE IF y >= dp.NT
                    THEN Times3(dp.semiring, dp.terms[b][i][y - dp.NT],
                                SpanValue(dp, b, i + 1, w - 1, z), dp.rules[b][x][y][z])
                    ELSE IF z >= dp.NT
                    THEN Times3(dp.semiring, SpanValue(dp, b, i, w - 1, y),
                                dp.terms[b][i + w][z - dp.NT], dp.rules[b][x][y][z])
                    ELSE SemiSum(dp.semiring,
                                 [k \in Idx(w) |->
                                     Times3(dp.semiring, SpanValue(dp, b, i, k, y),
                                            SpanValue(dp, b, i + k + 1, w - 1 - k, z),
                                            dp.rules[b][x][y][z])],
                                 Idx(w))

\* the loop has passed w = 3 on a grammar with two nonterminals and a
\* terminal: each of the four cases has produced a non-zero entry
C12_Witness ==
    /\ dp.pc = "done" /\ dp.N = 4 /\ dp.NT = 2 /\ dp.T = 1
    /\ dp.rule_use[0][1][0][0][2][2] # Zero(dp.semiring)
    /\ dp.rule_use[1][1][0][0][2][2] = Zero(dp.semiring)
    /\ dp.rule_use[2][1][0][0][2][1] # Zero(dp.semiring)
    /\ dp.rule_use[2][1][0][0][1][2] # Zero(dp.semiring)
    /\ dp.rule_use[2][1][0][0][0][1] # Zero(dp.semiring)

\* ---- C13 ----
\* C13: CKY.from_parts, given rules of shape (batch, N, N, NT, S, S) and terms
\* of shape (batch, N, T), returns spans with spans[b, i, j, A] the sum over
\* B, C of rules[b, j - i - 1, i, A, B, C] for 0 <= i < j < N and A < NT,
\* spans[b, i, i, NT + t] = terms[b, i, t], and zero elsewhere; batch
\* elements whose rules differ only in how each span's count is spread over
\* (B, C) get the same spans.
C13_FromPartsSums ==
    (back.pc # "idle" /\ Len(parts.rules.shape) = 6) =>
        LET N == parts.rules.shape[2]
            NT == parts.rules.shape[4]
            S == parts.rules.shape[5]
            total(b, i, j, x) ==
                SumF([y \in Idx(S) |->
                         SumF([z \in Idx(S) |-> parts.rules.data[b][j - i - 1][i][x][y][z]],
                              Idx(S))],
                     Idx(S))
        IN  /\ back.pc = "returned"
            /\ \A b \in Batch, i \in Idx(N), j \in Idx(N), x \in Idx(S) :
                  back.spans[b][i][j][x] =
                      IF i < j /\ x < NT THEN total(b, i, j, x)
                      ELSE IF i = j /\ x >= NT THEN parts.terms[b][i][x - NT]
                      ELSE 0
            /\ \A b \in Batch, c \in Batch :
                  ((\A i \in Idx(N), j \in Idx(N), x \in Idx(NT) :
                        i < j => total(b, i, j, x) = total(c, i, j, x))
                   /\ parts.terms[b] = parts.terms[c])
                  => back.spans[b] = back.spans[c]

\* from_parts has returned on parts whose two batch elements spread a
\* non-zero count of the span (0, 2) differently over the child labels
C13_Witness ==
    /\ back.pc = "returned" /\ Len(parts.rules.shape) = 6
    /\ parts.rules.shape[2] >= 3
    /\ parts.rules.data[0][1][0] # parts.rules.data[1][1][0]
    /\ back.spans[0][0][2][0] > 0
    /\ back.spans[0] = back.spans[1]

\* ---- C14 ----
\* C14: under the Max semiring, for every batch element with lengths[b] = N,
\* the total of CKY_CRF._dp (a semiring value, read without its semiring
\* axis) is the maximum, over the derivations CKY_CRF.enumerate produces, of
\* the sum of the scores of the derivation's labeled spans.
C14_CrfMaxEqualsEnumerate ==
    (struct = "CKY_CRF" /\ enum.pc = "done" /\ scores.semiring = "Max") =>
        \A b \in Batch :
            scores.lengths[b] = scores.N =>
                Unconvert("Max", crf.log_Z[b]) = enum.total[b]

\* both engines of CKY_CRF have finished on scores that are not all alike,
\* with three labels over four positions
C14_Witness ==
    /\ struct = "CKY_CRF" /\ enum.pc = "done" /\ scores.semiring = "Max"
    /\ scores.N = MaxN /\ scores.NT = MaxS
    /\ \A b \in Batch : scores.lengths[b] = scores.N
    /\ \E i \in Idx(scores.N), j \in Idx(scores.N) :
          scores.scores[1][i][j][0] # scores.scores[1][0][0][0]

\* ---- C15 ----
\* C15: to_event(sequence, extra, lengths) returns exactly the parts that
\* struct.to_parts(sequence, extra, lengths) returns with the caller's
\* lengths; for SentCFG the (terms, rules, roots) of CKY.to_parts.
C15_ToEventIsToParts ==
    (dist.pc # "idle" /\ parts.pc = "returned") => dist = parts

=============================================================================
